---- MODULE Spec2Model ----
(***************************************************************************)
(* A model of the Rosetta Code reader: rosettacode.py (CodeBlock,          *)
(* Language, Task, Category) and the command line tool rccli.py.           *)
(*                                                                         *)
(* Text is a sequence of lexemes.  A lexeme is either one of the marks the *)
(* regular expressions of the source look at ("{{", "}}", "|", "=", ">",   *)
(* "<lang", "</lang", "<pre", "</pre", "==", newline, blank, ...) or an    *)
(* opaque word that holds none of them.  Every literal of a regular        *)
(* expression is a sequence of lexemes and every character class is a      *)
(* predicate on lexemes, so matching on lexemes is matching on the         *)
(* characters of the concatenated text.                                    *)
(*                                                                         *)
(* A Python value that may be None is a set: None is {} and a value v is   *)
(* {v}.                                                                    *)
(***************************************************************************)
EXTENDS Integers, Sequences, FiniteSets, TLC

VARIABLES
    language,       \* the Language object under test: None before construction
    call,           \* the arguments its constructor was called with
    site,           \* the page text cache_page returns for each wikiname
    task,           \* the Task object under test
    calls,          \* how often each lazy field of the Task was computed
    ret,            \* what the last read of the Task returned: None before one
    options,        \* the call rccli made and its options: None before it
    fh,             \* the text list_task wrote
    files,          \* the files write_tasks_dir wrote, by name
    dirs,           \* the directories write_tasks_dir made
    stdout,         \* the lines printed
    category,       \* the Category object under test: None before construction
    threads         \* the frames of the threads at work on the Task: None without

langVars == <<language, call>>
taskVars == <<site, task, calls, ret>>
cliVars == <<options, fh, files, dirs, stdout>>
catVars == <<category>>
threadVars == <<threads>>
vars == <<langVars, taskVars, cliVars, catVars, threadVars>>

IdleLanguage == language = {} /\ call = {}
IdleTask == site = <<>> /\ task = {} /\ calls = {} /\ ret = {}
IdleCli == options = {} /\ fh = <<>> /\ files = <<>> /\ dirs = {} /\ stdout = <<>>
IdleCategory == category = {}
IdleThreads == threads = {}

None == {}
Some(v) == {v}
Get(o) == CHOOSE v \in o : TRUE

\* F(v) with v computed once, as Python computes a value before it names it
Eval(v, F(_)) == CHOOSE r \in {F(x) : x \in {v}} : TRUE

NL == "\n"
SP == " "

(***************************************************************************)
(* Bounds of the model.                                                    *)
(***************************************************************************)
MaxFrags == 3
MaxSections == 2
MaxCalls == 3
MaxNodes == 3
MaxTokens == 3
MaxLines == 4

(***************************************************************************)
(* Character classes of the regular expressions, on lexemes.               *)
(***************************************************************************)
\* the lexeme holds a '}' : it is outside [^}]
HasCloseBrace(t) == t \in {"}}", "int main(){return 0;}"}
\* the lexeme holds a '>' : it is outside [^>]
HasGt(t) == t = ">"
\* \s
IsSpace(t) == t \in {SP, NL}

Min(S) == CHOOSE x \in S : \A y \in S : x <= y

\* the first index k >= i of s with P(s[k]); Len(s) + 1 when there is none
FirstAt(s, i, P(_)) ==
    LET c == {k \in i..Len(s) : P(s[k])}
    IN  IF c = {} THEN Len(s) + 1 ELSE Min(c)

\* the index of the second lexeme of the first a,b at or after i; 0 when none
FindLit2(s, i, a, b) ==
    LET c == {k \in i..(Len(s) - 1) : s[k] = a /\ s[k + 1] = b}
    IN  IF c = {} THEN 0 ELSE Min(c) + 1

\* [^}]*}} from index q: the index of the closing "}}", 0 when it fails
MarkerClose(s, q) ==
    LET j == FirstAt(s, q, HasCloseBrace)
    IN  IF j <= Len(s) /\ s[j] = "}}" THEN j ELSE 0

\* \s*<pre> from index q: the index of the ">" of <pre>, 0 when it fails
PreOpen(s, q) ==
    LET j == FirstAt(s, q, LAMBDA t : ~IsSpace(t))
    IN  IF j + 1 <= Len(s) /\ s[j] = "<pre" /\ s[j + 1] = ">" THEN j + 1 ELSE 0

(***************************************************************************)
(* Language.chunk_re: three alternatives tried in order at each index.     *)
(* Each gives the index of the last lexeme of the match, 0 for no match.   *)
(***************************************************************************)
\* \{\{out[^}]*}}\s*<pre>.*?</pre>
ChunkOut(s, p) ==
    IF p + 1 <= Len(s) /\ s[p] = "{{" /\ s[p + 1] = "out"
    THEN LET c == MarkerClose(s, p + 2)
         IN  IF c = 0 THEN 0
             ELSE LET o == PreOpen(s, c + 1)
                  IN  IF o = 0 THEN 0 ELSE FindLit2(s, o + 1, "</pre", ">")
    ELSE 0

\* \{\{[^}]*}}
ChunkMarker(s, p) ==
    IF s[p] = "{{" THEN MarkerClose(s, p + 1) ELSE 0

\* <lang.*?</lang>
ChunkLang(s, p) ==
    IF s[p] = "<lang" THEN FindLit2(s, p + 1, "</lang", ">") ELSE 0

chunk_re(s, p) ==
    IF ChunkOut(s, p) # 0 THEN ChunkOut(s, p)
    ELSE IF ChunkMarker(s, p) # 0 THEN ChunkMarker(s, p)
    ELSE ChunkLang(s, p)

\* chunk_re.findall(s) from index p
RECURSIVE FindAllChunks(_, _)
FindAllChunks(s, p) ==
    LET P == {q \in p..Len(s) : chunk_re(s, q) # 0}
    IN  IF P = {} THEN <<>>
        ELSE Eval(Min(P), LAMBDA q :
             Eval(chunk_re(s, q), LAMBDA e :
                <<SubSeq(s, q, e)>> \o FindAllChunks(s, e + 1)))

\* str.split(sep): the pieces of s between the lexemes sep
RECURSIVE Split(_, _)
Split(s, sep) ==
    LET j == FirstAt(s, 1, LAMBDA t : t = sep)
    IN  IF j > Len(s) THEN <<s>>
        ELSE <<SubSeq(s, 1, j - 1)>> \o Split(SubSeq(s, j + 1, Len(s)), sep)

\* str.split(sep, 1): split at the first sep only
Split1(s, sep) ==
    LET j == FirstAt(s, 1, LAMBDA t : t = sep)
    IN  IF j > Len(s) THEN <<s>>
        ELSE <<SubSeq(s, 1, j - 1), SubSeq(s, j + 1, Len(s))>>

(***************************************************************************)
(* Language.workswith_re.search : None or {group(1)}                       *)
(***************************************************************************)
workswith_re(s) ==
    LET c == {k \in 1..(Len(s) - 2) :
                /\ s[k] = "{{" /\ s[k + 1] = "works with" /\ s[k + 2] = "|"
                /\ MarkerClose(s, k + 3) # 0}
    IN  IF c = {} THEN None
        ELSE LET k == Min(c)
             IN  Some(SubSeq(s, k + 3, MarkerClose(s, k + 3) - 1))

(***************************************************************************)
(* Language.out_re.search : None or {<<group(1), group(2)>>}               *)
(***************************************************************************)
\* the index where group(1) starts when the match starts at k: \|? is greedy
OutArgs(s, k) == IF k + 2 <= Len(s) /\ s[k + 2] = "|" THEN k + 3 ELSE k + 2

OutEnd(s, k) ==
    IF k + 1 <= Len(s) /\ s[k] = "{{" /\ s[k + 1] = "out"
    THEN LET c == MarkerClose(s, OutArgs(s, k))
         IN  IF c = 0 THEN 0
             ELSE LET o == PreOpen(s, c + 1)
                  IN  IF o = 0 THEN 0 ELSE FindLit2(s, o + 1, "</pre", ">")
    ELSE 0

out_re(s) ==
    LET c == {k \in 1..Len(s) : OutEnd(s, k) # 0}
    IN  IF c = {} THEN None
        ELSE LET k == Min(c)
                 a == OutArgs(s, k)
                 cl == MarkerClose(s, a)
                 o == PreOpen(s, cl + 1)
             IN  Some(<<SubSeq(s, a, cl - 1), SubSeq(s, o + 1, OutEnd(s, k) - 2)>>)

(***************************************************************************)
(* Language.block_re.search : None or {<<group(1), group(2)>>}             *)
(***************************************************************************)
\* the index where group(1) starts when the match starts at k: ' ?' is greedy
LangArgs(s, k) == IF k + 1 <= Len(s) /\ s[k + 1] = SP THEN k + 2 ELSE k + 1

\* [^>]*> from index q: the index of the ">", 0 when it fails
LangOpenEnd(s, q) ==
    LET j == FirstAt(s, q, HasGt) IN IF j <= Len(s) THEN j ELSE 0

BlockEnd(s, k) ==
    IF s[k] = "<lang"
    THEN LET g == LangOpenEnd(s, LangArgs(s, k))
         IN  IF g = 0 THEN 0 ELSE FindLit2(s, g + 1, "</lang", ">")
    ELSE 0

block_re(s) ==
    LET c == {k \in 1..Len(s) : BlockEnd(s, k) # 0}
    IN  IF c = {} THEN None
        ELSE LET k == Min(c)
                 a == LangArgs(s, k)
                 g == LangOpenEnd(s, a)
             IN  Some(<<SubSeq(s, a, g - 1), SubSeq(s, g + 1, BlockEnd(s, k) - 2)>>)

(***************************************************************************)
(* CodeBlock.__init__                                                      *)
(***************************************************************************)
CodeBlock(code, syntax) ==
    [syntax |-> IF syntax = <<>> THEN None ELSE Some(syntax),
     code |-> code,
     output |-> None,
     workswith |-> None]

(***************************************************************************)
(* Language.blocks: the loop over the chunks.                              *)
(***************************************************************************)
\* which of the three searches of the loop body is the first to match
ChunkKind(string) ==
    IF workswith_re(string) # None THEN "workswith"
    ELSE IF out_re(string) # None THEN "out"
    ELSE IF block_re(string) # None THEN "block"
    ELSE "other"

\* WorksWith with display and version of three arguments the other way round
WorksWith_swapped(arg) ==
    LET parts == Split(arg, "|")
    IN  [wikiname |-> Some(parts[1]),
         display |-> IF Len(parts) = 3 THEN Some(parts[3]) ELSE None,
         version |-> IF Len(parts) = 2 THEN Some(parts[2])
                     ELSE IF Len(parts) = 3 THEN Some(parts[2]) ELSE None]

\* the works_with dict built from group(1) of workswith_re
WorksWith(arg) ==
    LET parts == Split(arg, "|")
    IN  [wikiname |-> Some(parts[1]),
         display |-> IF Len(parts) = 3 THEN Some(parts[2]) ELSE None,
         version |-> IF Len(parts) = 2 THEN Some(parts[2])
                     ELSE IF Len(parts) = 3 THEN Some(parts[3]) ELSE None]

OutKeys == {"case", "input", "note", "text"}

\* one turn of 'for i in params'
OutParam(acc, i) ==
    LET parts == Split1(i, "=")
    IN  IF Len(parts) = 2 /\ parts[1] \in {<<k>> : k \in OutKeys}
        THEN [acc EXCEPT !.out[parts[1][1]] = Some(parts[2])]
        ELSE [acc EXCEPT !.label = parts[1]]

RECURSIVE OutParams(_, _)
OutParams(acc, params) ==
    IF params = <<>> THEN acc
    ELSE Eval(OutParam(acc, Head(params)), LAMBDA acc1 : OutParams(acc1, Tail(params)))

\* the out dict built from group(1) and group(2) of out_re
Output(arg, output) ==
    LET params == Split(arg, "|")
        acc == OutParams([out |-> [k \in OutKeys |-> None], label |-> <<"Output">>],
                         params)
    IN  [case |-> acc.out["case"], input |-> acc.out["input"],
         note |-> acc.out["note"], text |-> acc.out["text"],
         label |-> acc.label, output |-> output]

\* the out chunk's dict
OutputOf(string) == Output(Get(out_re(string))[1], Get(out_re(string))[2])

\* the state of the loop: blocks, works_with, and code as an index of blocks
\* (0 for None: code is always the block appended last)
BlocksStart == [blocks |-> <<>>, works_with |-> None, code |-> 0]

\* BlocksStep with the current block cleared once an output is attached
BlocksStep_detach(st, string) ==
    CASE ChunkKind(string) = "workswith" ->
            [st EXCEPT !.works_with = Some(WorksWith(Get(workswith_re(string))))]
      [] ChunkKind(string) = "out" ->
            IF st.code # 0
            THEN [st EXCEPT !.blocks[st.code].output = Some(OutputOf(string)),
                            !.code = 0]
            ELSE st
      [] ChunkKind(string) = "block" ->
            LET m == Get(block_re(string))
                new == CodeBlock(m[2], m[1])
                code == IF st.works_with # None
                        THEN [new EXCEPT !.workswith = st.works_with]
                        ELSE new
            IN  [st EXCEPT !.blocks = Append(@, code), !.code = Len(st.blocks) + 1]
      [] OTHER -> st

\* BlocksStep with an output that has no block kept as a block of its own
BlocksStep_standalone(st, string) ==
    CASE ChunkKind(string) = "workswith" ->
            [st EXCEPT !.works_with = Some(WorksWith(Get(workswith_re(string))))]
      [] ChunkKind(string) = "out" ->
            IF st.code # 0
            THEN [st EXCEPT !.blocks[st.code].output = Some(OutputOf(string))]
            ELSE [st EXCEPT !.blocks = Append(@, [CodeBlock(<<>>, <<>>) EXCEPT
                                                    !.output = Some(OutputOf(string))]),
                            !.code = Len(st.blocks) + 1]
      [] ChunkKind(string) = "block" ->
            LET m == Get(block_re(string))
                new == CodeBlock(m[2], m[1])
                code == IF st.works_with # None
                        THEN [new EXCEPT !.workswith = st.works_with]
                        ELSE new
            IN  [st EXCEPT !.blocks = Append(@, code), !.code = Len(st.blocks) + 1]
      [] OTHER -> st

BlocksStep(st, string) ==
    CASE ChunkKind(string) = "workswith" ->
            [st EXCEPT !.works_with = Some(WorksWith(Get(workswith_re(string))))]
      [] ChunkKind(string) = "out" ->
            IF st.code # 0
            THEN [st EXCEPT !.blocks[st.code].output = Some(OutputOf(string))]
            ELSE st
      [] ChunkKind(string) = "block" ->
            LET m == Get(block_re(string))
                new == CodeBlock(m[2], m[1])
                code == IF st.works_with # None
                        THEN [new EXCEPT !.workswith = st.works_with]
                        ELSE new
            IN  [st EXCEPT !.blocks = Append(@, code), !.code = Len(st.blocks) + 1]
      [] OTHER -> st

RECURSIVE BlocksLoop(_, _)
BlocksLoop(st, matches) ==
    IF matches = <<>> THEN st
    ELSE Eval(BlocksStep(st, Head(matches)), LAMBDA st1 : BlocksLoop(st1, Tail(matches)))

Blocks(text) ==
    Eval(FindAllChunks(text, 1), LAMBDA matches : BlocksLoop(BlocksStart, matches).blocks)

(***************************************************************************)
(* Language.__init__                                                       *)
(***************************************************************************)
\* LanguageName taking the first piece instead of the second
LanguageName_first(name) ==
    IF \E k \in 1..Len(name) : name[k] = "|" THEN Split(name, "|")[1] ELSE name

LanguageName(name) ==
    IF \E k \in 1..Len(name) : name[k] = "|" THEN Split(name, "|")[2] ELSE name

Language(name, text) ==
    [name |-> LanguageName(name), md |-> text, _blocks |-> None, _blockmatches |-> None]

\* the blocks property: the object after the read (the value read is its _blocks)
LanguageBlocks(l) ==
    IF l._blocks # None THEN l
    ELSE Eval(FindAllChunks(l.md, 1), LAMBDA matches :
            [l EXCEPT !._blockmatches = Some(matches),
                      !._blocks = Some(BlocksLoop(BlocksStart, matches).blocks)])

(***************************************************************************)
(* Section bodies: up to MaxFrags pieces of wikitext, one after another.   *)
(***************************************************************************)
Example ==
    <<"{{", "works with", "|", "GCC", "|", "4.8", "}}", NL,
      "<lang", SP, "C", ">", "int main(){return 0;}", "</lang", ">", NL,
      "{{", "out", "}}", NL, "<pre", ">", "0", NL, "</pre", ">">>

Frags ==
    { <<"{{", "works with", "|", "GCC", "}}", NL>>,
      <<"{{", "works with", "|", "GCC", "|", "4.8", "}}", NL>>,
      <<"<lang", SP, "C", ">", "a", NL, "</lang", ">", NL>>,
      <<"<lang", ">", "b", "</lang", ">">>,
      <<"<lang", ">", "</lang", ">">>,
      <<"{{", "out", "}}", NL, "<pre", ">", "0", NL, "</pre", ">", NL>>,
      <<"{{", "out", "|", "Sample", "|", "note", "=", "n", "}}", "<pre", ">", "1", "</pre", ">">>,
      <<"{{", "out", "}}", NL>>,
      <<"{{", "omit from", "|", "C", "}}">>,
      <<"<lang", ">", "{{", "works with", "|", "X", "}}", "</lang", ">">>,
      <<"<lang", ">", "{{", "out", "}}", "<pre", ">", "2", "</pre", ">", "</lang", ">">>,
      <<"t", NL>> }

RECURSIVE Concat(_)
Concat(ss) == IF ss = <<>> THEN <<>> ELSE Head(ss) \o Concat(Tail(ss))

Bodies ==
    {Example} \cup
    {Concat(fs) : fs \in UNION {[1..n -> Frags] : n \in 0..MaxFrags}}

RawNames ==
    { <<"C">>, <<"F_Sharp", "|", "F#">>, <<"A", "|", "B", "|", "D">>, <<"PL", "/", "I">> }

(***************************************************************************)
(* The Language object: construction, then reads of blocks.                *)
(***************************************************************************)
NewLanguage(name, text) ==
    /\ language' = Some(Language(name, text))
    /\ call' = Some([name |-> name, md |-> text])
    /\ UNCHANGED <<taskVars, cliVars, catVars, threadVars>>

ReadBlocks ==
    /\ language # None
    /\ language' = Some(LanguageBlocks(Get(language)))
    /\ UNCHANGED <<call, taskVars, cliVars, catVars, threadVars>>

InitLanguage ==
    /\ language = None
    /\ call = None
    /\ IdleTask /\ IdleCli /\ IdleCategory /\ IdleThreads

NextLanguage ==
    \/ language = None /\ \E name \in RawNames, text \in Bodies : NewLanguage(name, text)
    \/ ReadBlocks

SpecLanguage == InitLanguage /\ [][NextLanguage]_vars

(***************************************************************************)
(* Section bodies with one marker each: a fenced region and an output      *)
(* marker of up to MaxTokens parameters after it, or a works-with marker   *)
(* of up to MaxTokens + 1 arguments and a fenced region after it.          *)
(***************************************************************************)
OutTokens ==
    { <<"Sample">>, <<"Other">>, <<"note", "=", "n">>, <<"case", "=", "1">>,
      <<"foo", "=", "bar">>, <<>> }

WorksWithTokens == { <<"GCC">>, <<"gcc">>, <<"4.8">> }

\* the tokens with a '|' between them
RECURSIVE JoinPipe(_)
JoinPipe(ts) ==
    IF Len(ts) = 0 THEN <<>>
    ELSE IF Len(ts) = 1 THEN ts[1]
    ELSE ts[1] \o <<"|">> \o JoinPipe(Tail(ts))

Fence == <<"<lang", ">", "a", "</lang", ">", NL>>

OutBody(ts) ==
    Fence \o <<"{{", "out", "|">> \o JoinPipe(ts) \o <<"}}", NL, "<pre", ">", "0", "</pre", ">">>

BareOutBody == Fence \o <<"{{", "out", "}}", NL, "<pre", ">", "0", "</pre", ">">>

WorksWithBody(ts) ==
    <<"{{", "works with", "|">> \o JoinPipe(ts) \o <<"}}", NL>> \o Fence

MarkerBodies ==
    {BareOutBody}
    \cup {OutBody(ts) : ts \in UNION {[1..n -> OutTokens] : n \in 1..MaxTokens}}
    \cup {WorksWithBody(ts) :
            ts \in UNION {[1..n -> WorksWithTokens] : n \in 1..(MaxTokens + 1)}}

NextMarkers ==
    \/ language = None /\ \E text \in MarkerBodies : NewLanguage(<<"C">>, text)
    \/ ReadBlocks

SpecMarkers == InitLanguage /\ [][NextMarkers]_vars

(***************************************************************************)
(* Task.language_re and Task.language2_re                                  *)
(***************************************************************************)
\* \n==\{\{header\| at index p
HeadOpen(s, p) ==
    /\ p + 4 <= Len(s)
    /\ s[p] = NL /\ s[p + 1] = "==" /\ s[p + 2] = "{{"
    /\ s[p + 3] = "header" /\ s[p + 4] = "|"

\* \}\}== *\n at index j: the index of the newline, 0 when it fails
HeadClose(s, j) ==
    IF j + 1 <= Len(s) /\ s[j] = "}}" /\ s[j + 1] = "=="
    THEN LET k == FirstAt(s, j + 2, LAMBDA t : t # SP)
         IN  IF k <= Len(s) /\ s[k] = NL THEN k ELSE 0
    ELSE 0

\* (?=\n==\{|$) at index e: $ is the end of the text, or just before a
\* newline that ends the text
BodyStop(s, e) ==
    \/ e + 2 <= Len(s) /\ s[e] = NL /\ s[e + 1] = "==" /\ s[e + 2] = "{{"
    \/ e = Len(s) + 1
    \/ e = Len(s) /\ s[e] = NL

\* (.*?)(?=\n==\{|$) from index n: the index of the last lexeme of the body
BodyEnd(s, n) == Min({e \in n..(Len(s) + 1) : BodyStop(s, e)}) - 1

\* language_re at index p: None, or the groups and the end of the match
LanguageMatch(s, p) ==
    IF ~HeadOpen(s, p) THEN None
    ELSE LET J == {j \in (p + 5)..Len(s) : HeadClose(s, j) # 0}
         IN  IF J = {} THEN None
             ELSE LET j == Min(J)
                      n == HeadClose(s, j)
                      e == BodyEnd(s, n + 1)
                  IN  Some([name |-> SubSeq(s, p + 5, j - 1),
                            md |-> SubSeq(s, n + 1, e),
                            end |-> e])

\* \}\} and \{\{header\| at index j
HeadAnd(s, j) ==
    /\ j + 4 <= Len(s)
    /\ s[j] = "}}" /\ s[j + 1] = " and " /\ s[j + 2] = "{{"
    /\ s[j + 3] = "header" /\ s[j + 4] = "|"

\* language2_re at index p: None, or the groups and the end of the match
Language2Match(s, p) ==
    IF ~HeadOpen(s, p) THEN None
    ELSE LET j == FirstAt(s, p + 5, HasCloseBrace)
         IN  IF ~HeadAnd(s, j) THEN None
             ELSE LET j2 == FirstAt(s, j + 5, HasCloseBrace)
                      n == IF j2 <= Len(s) THEN HeadClose(s, j2) ELSE 0
                  IN  IF n = 0 THEN None
                      ELSE LET e == BodyEnd(s, n + 1)
                           IN  Some([name |-> SubSeq(s, p + 5, j - 1),
                                     name2 |-> SubSeq(s, j + 5, j2 - 1),
                                     md |-> SubSeq(s, n + 1, e),
                                     end |-> e])

\* language_re.findall: the matches from index p on, left to right
RECURSIVE FindAllLanguage(_, _)
FindAllLanguage(s, p) ==
    LET P == {q \in p..Len(s) : LanguageMatch(s, q) # None}
    IN  IF P = {} THEN <<>>
        ELSE Eval(Get(LanguageMatch(s, Min(P))), LAMBDA m :
                <<m>> \o FindAllLanguage(s, m.end + 1))

\* language2_re.findall: the matches from index p on, left to right
RECURSIVE FindAllLanguage2(_, _)
FindAllLanguage2(s, p) ==
    LET P == {q \in p..Len(s) : Language2Match(s, q) # None}
    IN  IF P = {} THEN <<>>
        ELSE Eval(Get(Language2Match(s, Min(P))), LAMBDA m :
                <<m>> \o FindAllLanguage2(s, m.end + 1))

language_re(s) == FindAllLanguage(s, 1)
language2_re(s) == FindAllLanguage2(s, 1)

(***************************************************************************)
(* Task.task_re and Task.intro_re                                          *)
(***************************************************************************)
\* ^ under re.MULTILINE: the start of the text or just after a newline
LineStart(s, p) == p = 1 \/ s[p - 1] = NL

\* the lexeme starts with '=='
StartsEqEq(t) == t \in {"==", "==="}

\* task_re.search: None or {the first and the last index of group(1)}
task_re_span(s) ==
    LET Stops(p) == {e \in (p + 2)..Len(s) : LineStart(s, e) /\ StartsEqEq(s[e])}
        P == {p \in 1..(Len(s) - 1) :
                /\ LineStart(s, p) /\ s[p] = ";Task:" /\ s[p + 1] = NL
                /\ Stops(p) # {}}
    IN  IF P = {} THEN None
        ELSE Some(<<Min(P) + 2, Min(Stops(Min(P))) - 1>>)

\* task_re.search: None or {group(1)}
task_re(s) ==
    IF task_re_span(s) = None THEN None
    ELSE Some(SubSeq(s, Get(task_re_span(s))[1], Get(task_re_span(s))[2]))

\* the lexeme starts with '=' : it is outside [^=]
StartsEq(t) == t \in {"=", "==", "==="}

\* intro_re.search: None or {the first and the last index of group(1)}; ^ is
\* the start of the text only
intro_re_span(s) ==
    LET K == {k \in 1..(Len(s) - 2) :
                /\ s[k] = NL
                /\ \/ s[k + 1] = ";Task:" /\ s[k + 2] = NL
                   \/ s[k + 1] = "==" /\ ~StartsEq(s[k + 2])}
    IN  IF K = {} THEN None ELSE Some(<<1, Min(K) - 1>>)

\* intro_re.search: None or {group(1)}
intro_re(s) ==
    IF intro_re_span(s) = None THEN None
    ELSE Some(SubSeq(s, Get(intro_re_span(s))[1], Get(intro_re_span(s))[2]))

(***************************************************************************)
(* The pages of the site, as cache_page returns them, and the two library  *)
(* calls of Task.edit: BeautifulSoup's first textarea and html.unescape.   *)
(***************************************************************************)
\* html.unescape of one lexeme
UnescapeLexeme(t) ==
    CASE t = "&lt;lang" -> "<lang"
      [] t = "&lt;/lang" -> "</lang"
      [] t = "&lt;pre" -> "<pre"
      [] t = "&lt;/pre" -> "</pre"
      [] t = "&gt;" -> ">"
      [] OTHER -> t

unescape(s) == [k \in 1..Len(s) |-> UnescapeLexeme(s[k])]

\* soup.findAll('textarea'), then ta[0].contents[0]: None when the page has
\* no textarea, else the text of the first one
FirstTextarea(page) ==
    LET o == FindLit2(page, 1, "<textarea", ">")
    IN  IF o = 0 THEN None
        ELSE LET c == FindLit2(page, o + 1, "</textarea", ">")
             IN  Some(SubSeq(page, o + 1, IF c = 0 THEN Len(page) ELSE c - 2))

\* a str or a list in a Python condition: None and the empty one are false
Truthy(o) == o # None /\ Get(o) # <<>>

(***************************************************************************)
(* Task                                                                    *)
(***************************************************************************)
\* urllib's unquote of one lexeme
UnquoteLexeme(t) == IF t = "%27" THEN "'" ELSE t

unquote(s) == [k \in 1..Len(s) |-> UnquoteLexeme(s[k])]

\* str.replace(a, b) for a lexeme a
Replace(s, a, b) == [k \in 1..Len(s) |-> IF s[k] = a THEN b ELSE s[k]]

\* str.encode('utf-8') of one lexeme
Utf8Lexeme(t) == IF t = "\\u00e9" THEN "\\xc3\\xa9" ELSE t

encode(s) == [k \in 1..Len(s) |-> Utf8Lexeme(s[k])]

\* the default filter, lambda _: True, and rccli's lambda lang: lang.name == n
AcceptAll == [kind |-> "all"]
NameIs(n) == [kind |-> "name", name |-> n]

Accept(filter, lang) == filter.kind = "all" \/ lang.name = filter.name

\* Task.__init__
Task(wikiname) ==
    [wikiname |-> wikiname,
     name |-> unquote(wikiname),
     _page |-> None,
     _edit |-> None,
     _languages |-> None,
     _byname |-> None,
     _language_filter |-> AcceptAll]

\* how often each lazy field was computed: the page and the edit text since
\* the Task was made, the language list since the filter was last assigned,
\* the blocks of each Language of the current list since that list was made
NoCalls == [page |-> 0, edit |-> 0, languages |-> 0, blocks |-> <<>>]

\* A property read works on w = [task, calls] and gives the w after the read.

\* Task.page; the value read is TaskPage(w).task._page
TaskPage(w) ==
    IF Truthy(w.task._page) THEN w
    ELSE [w EXCEPT !.task._page = Some(site[w.task.wikiname]),
                   !.calls.page = @ + 1]

\* Task.edit; the value read is TaskEdit(w).task._edit
TaskEdit(w) ==
    IF Truthy(w.task._edit) THEN w
    ELSE Eval(TaskPage(w), LAMBDA w1 :
            LET ta == FirstTextarea(Get(w1.task._page))
                area == IF ta # None THEN Get(ta) ELSE <<>>
            IN  [w1 EXCEPT !.task._edit = Some(unescape(area)),
                           !.calls.edit = @ + 1])

\* Task.fsname
fsname(t) == encode(Replace(t.name, "/", "_"))

\* Task.task and Task.intro: the w after the read, and the value read
TaskTaskValue(w) ==
    LET m == task_re(Get(TaskEdit(w).task._edit))
    IN  IF m # None THEN Get(m) ELSE <<>>

TaskIntroValue(w) ==
    LET m == intro_re(Get(TaskEdit(w).task._edit))
    IN  IF m # None THEN Get(m) ELSE <<>>

\* the Languages of both kinds of heading, before filtering
DetectLanguages(edit1, edit2) ==
    Eval(language_re(edit1), LAMBDA m1 :
        Eval(language2_re(edit2), LAMBDA m2 :
            [k \in 1..Len(m1) |-> Language(m1[k].name, m1[k].md)]
            \o [k \in 1..Len(m2) |-> Language(m2[k].name, m2[k].md)]))

\* dict((lang.name, lang) for lang in languages): a later pair replaces an
\* earlier one of the same name.  A Language in the dict is the object of the
\* list, given here as its index in the list.
ByName(languages) ==
    [n \in {languages[k].name : k \in 1..Len(languages)} |->
        CHOOSE k \in 1..Len(languages) :
            /\ languages[k].name = n
            /\ \A j \in 1..Len(languages) : languages[j].name = n => j <= k]

\* Task.languages; the value read is TaskLanguages(w).task._languages
TaskLanguages(w) ==
    IF w.task._languages # None THEN w
    ELSE Eval(TaskEdit(w), LAMBDA w1 :
         Eval(TaskEdit(w1), LAMBDA w2 :
         Eval(DetectLanguages(Get(w1.task._edit), Get(w2.task._edit)), LAMBDA all :
         Eval(SelectSeq(all, LAMBDA l : Accept(w2.task._language_filter, l)),
              LAMBDA languages :
                [w2 EXCEPT !.task._languages = Some(languages),
                           !.task._byname = Some(ByName(languages)),
                           !.calls.languages = @ + 1,
                           !.calls.blocks = [k \in 1..Len(languages) |-> 0]]))))

\* Task.dict; the value read is TaskDict(w).task._byname
TaskDict(w) ==
    IF w.task._languages = None THEN TaskLanguages(w) ELSE w

\* the setter leaving the cached list in place
SetFilter_keep(w, value) ==
    [w EXCEPT !.task._language_filter = value]

\* the language_filter setter
SetFilter(w, value) ==
    [w EXCEPT !.task._language_filter = value,
              !.task._languages = None,
              !.calls.languages = 0]

\* lang.blocks for the k-th Language of the list
TaskBlocks(w, k) ==
    LET l == Get(w.task._languages)[k]
    IN  IF l._blocks # None THEN w
        ELSE Eval(LanguageBlocks(l), LAMBDA l1 :
                [w EXCEPT !.task._languages = Some([Get(@) EXCEPT ![k] = l1]),
                          !.calls.blocks[k] = @ + 1])

(***************************************************************************)
(* Edit texts: an introduction, then up to MaxSections language sections.  *)
(***************************************************************************)
Heading(name) ==
    <<NL, "==", "{{", "header", "|">> \o name \o <<"}}", "==", NL>>

Heading2(name1, name2) ==
    <<NL, "==", "{{", "header", "|">> \o name1
        \o <<"}}", " and ", "{{", "header", "|">> \o name2 \o <<"}}", "==", NL>>

Sections ==
    { Heading(<<"C">>)
        \o <<"{{", "works with", "|", "GCC", "}}", NL, "<lang", ">", "b", "</lang", ">", NL,
             "<lang", ">", "</lang", ">">>,
      Heading2(<<"X">>, <<"Y">>)
        \o <<"<lang", SP, "C", ">", "\\u00e9", NL, "</lang", ">">>,
      Heading(<<"PL", "/", "I">>)
        \o <<"t", NL, "<lang", ">", "p", "</lang", ">">>,
      Heading(<<"X">>)
        \o <<"<lang", ">", "x", "</lang", ">">> }

Intros == { <<>>, <<"Intro.", NL, ";Task:", NL, "Do it.">> }

\* up to MaxSections sections, each one different from the others
SectionLists ==
    UNION {{ss \in [1..n -> Sections] : \A j, k \in 1..n : j # k => ss[j] # ss[k]} :
              n \in 0..MaxSections}

Edits == {i \o Concat(ss) : i \in Intros, ss \in SectionLists}

\* the lexeme as the site's HTML holds it inside the textarea
EscapeLexeme(t) ==
    CASE t = "<lang" -> "&lt;lang"
      [] t = "</lang" -> "&lt;/lang"
      [] t = "<pre" -> "&lt;pre"
      [] t = "</pre" -> "&lt;/pre"
      [] t = ">" -> "&gt;"
      [] OTHER -> t

EditPage(edit) ==
    <<"<html>", "<textarea", ">">> \o [k \in 1..Len(edit) |-> EscapeLexeme(edit[k])]
        \o <<"</textarea", ">", "</html>">>

\* the empty page, a page without a textarea, and the edit pages (a textarea
\* always holds some text: contents[0] of an empty one is an IndexError)
Pages ==
    { <<>>, <<"<html>", "</html>">> } \cup {EditPage(e) : e \in Edits \ {<<>>}}

Filters == {AcceptAll, NameIs(<<"C">>), NameIs(<<"Y">>)}

(***************************************************************************)
(* A Task and its readers.                                                 *)
(***************************************************************************)
self == [task |-> task, calls |-> calls]

\* a Language as a reader sees it
View(l) == [name |-> l.name, md |-> l.md]
Views(languages) == [k \in 1..Len(languages) |-> View(languages[k])]

Within(v) == v.calls.page <= MaxCalls /\ v.calls.edit <= MaxCalls

Read(v, op, val) ==
    /\ Within(v)
    /\ task' = v.task
    /\ calls' = v.calls
    /\ ret' = Some([op |-> op, val |-> val])
    /\ UNCHANGED <<site, langVars, cliVars, catVars, threadVars>>

ReadPage ==
    \E v \in {TaskPage(self)} : Read(v, "page", Get(v.task._page))

ReadEdit ==
    \E v \in {TaskEdit(self)} : Read(v, "edit", Get(v.task._edit))

ReadTask ==
    \E v \in {TaskEdit(self)} : Read(v, "task", TaskTaskValue(v))

ReadIntro ==
    \E v \in {TaskEdit(self)} : Read(v, "intro", TaskIntroValue(v))

\* Task.languages, Task.values()
ReadLanguages ==
    \E v \in {TaskLanguages(self)} :
        Read(v, "languages", Views(Get(v.task._languages)))

\* Task.dict, Task.items(): the Language of each name
ReadDict ==
    \E v \in {TaskDict(self)} :
        Read(v, "dict", [n \in DOMAIN Get(v.task._byname) |->
                            View(Get(v.task._languages)[Get(v.task._byname)[n]])])

\* Task.keys()
ReadKeys ==
    \E v \in {TaskDict(self)} : Read(v, "keys", DOMAIN Get(v.task._byname))

\* Task.get(index, None) and Task[index]; the latter raises KeyError where
\* the former gives None
ReadGet(index) ==
    \E v \in {TaskDict(self)} :
        Read(v, "get", [index |-> index,
                        got |-> IF index \in DOMAIN Get(v.task._byname)
                                THEN Some(View(Get(v.task._languages)[Get(v.task._byname)[index]]))
                                ELSE None])

\* task.languages[k].blocks
ReadTaskBlocks(k) ==
    \E v \in {TaskLanguages(self)} :
        /\ k \in 1..Len(Get(v.task._languages))
        /\ \E v2 \in {TaskBlocks(v, k)} :
              Read(v2, "blocks", Get(Get(v2.task._languages)[k]._blocks))

SetLanguageFilter(value) ==
    /\ task' = SetFilter(self, value).task
    /\ calls' = SetFilter(self, value).calls
    /\ ret' = None
    /\ UNCHANGED <<site, langVars, cliVars, catVars, threadVars>>

InitTask ==
    /\ \E page \in Pages : site = [n \in {<<"Foo">>} |-> page]
    /\ task = Task(<<"Foo">>)
    /\ calls = NoCalls
    /\ ret = None
    /\ IdleLanguage /\ IdleCli /\ IdleCategory /\ IdleThreads

NextTask ==
    \/ ReadPage
    \/ ReadEdit
    \/ ReadTask
    \/ ReadIntro
    \/ ReadLanguages
    \/ ReadDict
    \/ ReadKeys
    \/ \E index \in {<<"C">>, <<"Y">>} : ReadGet(index)
    \/ \E k \in 1..MaxSections : ReadTaskBlocks(k)
    \/ \E value \in Filters : SetLanguageFilter(value)

SpecTask == InitTask /\ [][NextTask]_vars

(***************************************************************************)
(* Edit texts of up to MaxLines lines, for Task.task and Task.intro.       *)
(***************************************************************************)
Lines ==
    { <<"Intro.">>, <<";Task:">>, <<"Do it.">>, <<"==", "H", "==">>,
      <<"===", "Deep", "===">>, <<>> }

\* the lines with a newline between them
RECURSIVE JoinLines(_)
JoinLines(ls) ==
    IF Len(ls) = 0 THEN <<>>
    ELSE IF Len(ls) = 1 THEN ls[1]
    ELSE ls[1] \o <<NL>> \o JoinLines(Tail(ls))

LineEdits == {JoinLines(ls) : ls \in UNION {[1..n -> Lines] : n \in 1..MaxLines}} \ {<<>>}

InitIntro ==
    /\ \E edit \in LineEdits : site = [n \in {<<"Foo">>} |-> EditPage(edit)]
    /\ task = Task(<<"Foo">>)
    /\ calls = NoCalls
    /\ ret = None
    /\ IdleLanguage /\ IdleCli /\ IdleCategory /\ IdleThreads

NextIntro ==
    \/ ReadEdit
    \/ ReadTask
    \/ ReadIntro

SpecIntro == InitIntro /\ [][NextIntro]_vars

(***************************************************************************)
(* Two threads on one Task: one reads Task.languages, the other assigns    *)
(* Task.language_filter.  The source holds no lock, so the threads take    *)
(* turns between any two accesses of the Task's attributes; a step is one  *)
(* such access with the local work around it.  Only the reader touches     *)
(* _page, _edit and _byname.                                               *)
(***************************************************************************)
\* the frame of a thread entering the languages getter
LanguagesFrame ==
    [pc |-> "check", languages |-> <<>>, k |-> 1, result |-> <<>>, seen |-> None]

\* the frame of a thread entering the language_filter setter with a value;
\* during: whether one of its assignments was made while the other thread was
\* past the getter's entry test and before its return
SetterFrame(value) ==
    [pc |-> "filter", value |-> value, during |-> FALSE]

\* the getter's positions after it found no cached list and before it is done
Computing == {"detect", "filter", "store", "byname", "setbyname", "return"}

\* 'if self._languages is not None'
LanguagesCheck ==
    /\ threads.reader.pc = "check"
    /\ threads' = [threads EXCEPT !.reader.pc =
                      IF task._languages # None THEN "cached" ELSE "detect"]
    /\ UNCHANGED <<site, task, calls, ret, langVars, cliVars, catVars>>

\* both findall calls on self.edit and the two lists of Language objects
LanguagesDetect ==
    /\ threads.reader.pc = "detect"
    /\ \E v \in {TaskEdit(self)} :
        \E all \in {DetectLanguages(Get(v.task._edit), Get(v.task._edit))} :
          /\ task' = v.task
          /\ calls' = v.calls
          /\ threads' = [threads EXCEPT !.reader.languages = all,
                                        !.reader.pc = IF all = <<>> THEN "store"
                                                      ELSE "filter"]
    /\ UNCHANGED <<site, ret, langVars, cliVars, catVars>>

\* one turn of the comprehension: self.language_filter is read and called
\* for the k-th Language; after the last turn the list made is 'languages'
LanguagesFilter ==
    /\ threads.reader.pc = "filter"
    /\ LET r == threads.reader
           lang == r.languages[r.k]
           result == IF Accept(task._language_filter, lang)
                     THEN Append(r.result, lang) ELSE r.result
       IN  threads' = IF r.k < Len(r.languages)
                      THEN [threads EXCEPT !.reader.k = r.k + 1,
                                           !.reader.result = result]
                      ELSE [threads EXCEPT !.reader.languages = result,
                                           !.reader.result = <<>>,
                                           !.reader.pc = "store"]
    /\ UNCHANGED <<site, task, calls, ret, langVars, cliVars, catVars>>

\* 'self._languages = languages'
LanguagesStore ==
    /\ threads.reader.pc = "store"
    /\ task' = [task EXCEPT !._languages = Some(threads.reader.languages)]
    /\ calls' = [calls EXCEPT !.languages = @ + 1,
                              !.blocks = [k \in 1..Len(threads.reader.languages) |-> 0]]
    /\ threads' = [threads EXCEPT !.reader.pc = "byname"]
    /\ UNCHANGED <<site, ret, langVars, cliVars, catVars>>

\* 'for lang in self._languages' of the dict: the attribute is read anew, and
\* iterating None raises TypeError
LanguagesByName ==
    /\ threads.reader.pc = "byname"
    /\ IF task._languages = None
       THEN /\ threads' = [threads EXCEPT !.reader.pc = "done"]
            /\ ret' = Some([op |-> "languages", raised |-> "TypeError", val |-> None])
       ELSE /\ threads' = [threads EXCEPT !.reader.seen = task._languages,
                                          !.reader.pc = "setbyname"]
            /\ UNCHANGED ret
    /\ UNCHANGED <<site, task, calls, langVars, cliVars, catVars>>

\* 'self._byname = dict(...)' of the list that was read
LanguagesSetByName ==
    /\ threads.reader.pc = "setbyname"
    /\ task' = [task EXCEPT !._byname = Some(ByName(Get(threads.reader.seen)))]
    /\ threads' = [threads EXCEPT !.reader.pc = "return"]
    /\ UNCHANGED <<site, calls, ret, langVars, cliVars, catVars>>

\* 'return self._languages', of the entry test and of the end: the attribute
\* is read anew
LanguagesReturn ==
    /\ threads.reader.pc \in {"cached", "return"}
    /\ ret' = Some([op |-> "languages", raised |-> "",
                    val |-> IF task._languages = None THEN None
                            ELSE Some(Views(Get(task._languages)))])
    /\ threads' = [threads EXCEPT !.reader.pc = "done"]
    /\ UNCHANGED <<site, task, calls, langVars, cliVars, catVars>>

\* 'self._language_filter = value'
SetterFilter ==
    /\ threads.writer.pc = "filter"
    /\ task' = [task EXCEPT !._language_filter = threads.writer.value]
    /\ threads' = [threads EXCEPT !.writer.pc = "reset",
                                  !.writer.during = threads.reader.pc \in Computing]
    /\ UNCHANGED <<site, calls, ret, langVars, cliVars, catVars>>

\* 'self._languages = None'
SetterReset ==
    /\ threads.writer.pc = "reset"
    /\ task' = [task EXCEPT !._languages = None]
    /\ calls' = [calls EXCEPT !.languages = 0]
    /\ threads' = [threads EXCEPT !.writer.pc = "done",
                                  !.writer.during = @ \/ threads.reader.pc \in Computing]
    /\ UNCHANGED <<site, ret, langVars, cliVars, catVars>>

\* a Task with a filter assigned, its list read before or not, and the two
\* threads at the entry of the getter and of the setter
InitThreads ==
    /\ \E page \in Pages : site = [n \in {<<"Foo">>} |-> page]
    /\ \E filter \in Filters, read \in BOOLEAN :
        \E w \in {SetFilter([task |-> Task(<<"Foo">>), calls |-> NoCalls], filter)} :
          \E v \in {IF read THEN TaskLanguages(w) ELSE w} :
            task = v.task /\ calls = v.calls
    /\ ret = None
    /\ \E value \in Filters :
          threads = [reader |-> LanguagesFrame, writer |-> SetterFrame(value)]
    /\ IdleLanguage /\ IdleCli /\ IdleCategory

NextThreads ==
    \/ LanguagesCheck
    \/ LanguagesDetect
    \/ LanguagesFilter
    \/ LanguagesStore
    \/ LanguagesByName
    \/ LanguagesSetByName
    \/ LanguagesReturn
    \/ SetterFilter
    \/ SetterReset

SpecThreads == InitThreads /\ [][NextThreads]_vars

(***************************************************************************)
(* rccli: comment, list_task and write_tasks_dir.                          *)
(***************************************************************************)
\* str.splitlines(): the lines of s without their newlines; a final newline
\* ends the last line and starts no further one
SplitLines(s) ==
    IF s = <<>> THEN <<>>
    ELSE Eval(Split(s, NL), LAMBDA ls :
            IF ls[Len(ls)] = <<>> THEN SubSeq(ls, 1, Len(ls) - 1) ELSE ls)

\* comment(language, block)
comment(lang, block) ==
    IF lang \in {<<"C">>, <<"C++">>}
    THEN <<"/*">> \o block \o <<NL, "*/", NL>>
    ELSE Eval(SplitLines(block), LAMBDA ls :
            Concat([k \in 1..Len(ls) |-> <<"# ">> \o ls[k] \o <<NL>>]))

\* str.lower() of one lexeme
LowerLexeme(t) ==
    CASE t = "C" -> "c"
      [] t = "X" -> "x"
      [] t = "Y" -> "y"
      [] t = "PL" -> "pl"
      [] t = "I" -> "i"
      [] OTHER -> t

lower(s) == [k \in 1..Len(s) |-> LowerLexeme(s[k])]

\* extension = lang.name.lower().replace('/', '.')
Extension(name) == Replace(lower(name), "/", ".")

\* the name with the block's position counted from 0
FileName_zero(fs, n, index) ==
    IF n > 1 THEN fs \o <<"__", ToString(index)>> ELSE fs

\* the name of the file of block index (from 0) of a Language of n blocks
FileName(fs, n, index) ==
    IF n > 1 THEN fs \o <<"__", ToString(index + 1)>> ELSE fs

\* os.path.join of relative paths
join(a, b) == a \o <<"/">> \o b

\* os.path.dirname(path): what is before the last '/'
dirname(path) ==
    LET P == {k \in 1..Len(path) : path[k] = "/"}
    IN  IF P = {} THEN <<>>
        ELSE SubSeq(path, 1, (CHOOSE k \in P : \A j \in P : j <= k) - 1)

\* the directories os.makedirs(d) makes: d and the directories above it
makedirs(d) ==
    {d} \cup {SubSeq(d, 1, k - 1) : k \in {j \in 1..Len(d) : d[j] = "/"}}

FilePath(code_dir, layout, name, extension) ==
    IF layout = "riscos" THEN join(join(code_dir, extension), name)
    ELSE join(code_dir, name \o <<".">> \o extension)

\* what is written before the code
FilePrefix(lang, intro, tasktext, include_task, include_intro) ==
    (IF include_intro /\ intro # <<>>
     THEN comment(lang, <<NL>> \o encode(intro)) \o <<NL>> ELSE <<>>)
    \o (IF include_task /\ tasktext # <<>>
        THEN comment(lang, <<"TASK:", NL>> \o encode(tasktext)) \o <<NL>> ELSE <<>>)

\* the file without the newline written last
FileText_bare(prefix, code) == prefix \o encode(code)

\* all that is written to one file
FileText(prefix, code) == prefix \o encode(code) \o <<NL>>

\* lang.blocks of every Language of the list, the first Language first
RECURSIVE BlocksFrom(_, _)
BlocksFrom(w, k) ==
    IF k > Len(Get(w.task._languages)) THEN w
    ELSE Eval(TaskBlocks(w, k), LAMBDA w1 : BlocksFrom(w1, k + 1))

\* the files of one Language, in the order of its blocks
LanguageFiles(t, l, code_dir, layout, prefix) ==
    LET blocks == Get(l._blocks)
    IN  [i \in 1..Len(blocks) |->
            [filename |-> FilePath(code_dir, layout,
                                   FileName(fsname(t), Len(blocks), i - 1),
                                   Extension(l.name)),
             text |-> FileText(prefix, blocks[i].code)]]

\* the files of a Task whose blocks are read, in the order they are written
TaskFiles(t, code_dir, layout, include_task, include_intro, intro, tasktext) ==
    LET languages == Get(t._languages)
    IN  Concat([k \in 1..Len(languages) |->
            LanguageFiles(t, languages[k], code_dir, layout,
                          FilePrefix(languages[k].name, intro, tasktext,
                                     include_task, include_intro))])

\* open(filename, 'w') and the writes, file by file: a later file replaces
\* an earlier one of the same name
RECURSIVE WriteFiles(_, _)
WriteFiles(fs, ws) ==
    IF ws = <<>> THEN fs
    ELSE WriteFiles([n \in DOMAIN fs \cup {ws[1].filename} |->
                        IF n = ws[1].filename THEN ws[1].text ELSE fs[n]],
                    Tail(ws))

\* write_tasks_dir([task], code_dir, layout, include_task, include_intro)
WriteTasksDir(code_dir, layout, include_task, include_intro) ==
    \E v \in {BlocksFrom(TaskLanguages(self), 1)} :
    \E ws \in {TaskFiles(v.task, code_dir, layout, include_task, include_intro,
                         TaskIntroValue(v), TaskTaskValue(v))} :
        /\ Within(v)
        /\ task' = v.task
        /\ calls' = v.calls
        /\ options' = Some([op |-> "write_tasks_dir", code_dir |-> code_dir,
                            layout |-> layout, include_task |-> include_task,
                            include_intro |-> include_intro])
        /\ files' = WriteFiles(files, ws)
        /\ dirs' = dirs \cup UNION {makedirs(dirname(ws[k].filename)) : k \in 1..Len(ws)}
        /\ stdout' = stdout \o [k \in 1..Len(ws) |-> <<"File: ">> \o ws[k].filename]
        /\ UNCHANGED <<site, ret, fh, langVars, catVars, threadVars>>

\* read.py's copy of write_tasks_dir: what is written before the code
ReadPyFilePrefix(lang, intro, tasktext, include_task, include_intro) ==
    (IF include_intro /\ intro # <<>>
     THEN comment(lang, <<NL>> \o encode(intro)) \o <<NL>> ELSE <<>>)
    \o (IF include_intro /\ tasktext # <<>>
        THEN comment(lang, <<"TASK:", NL>> \o encode(tasktext)) \o <<NL>> ELSE <<>>)

\* read.py's copy: the files of a Task, in the order they are written
ReadPyTaskFiles(t, code_dir, layout, include_task, include_intro, intro, tasktext) ==
    LET languages == Get(t._languages)
    IN  Concat([k \in 1..Len(languages) |->
            LanguageFiles(t, languages[k], code_dir, layout,
                          ReadPyFilePrefix(languages[k].name, intro, tasktext,
                                           include_task, include_intro))])

\* read.py's write_tasks_dir([task], code_dir, layout, include_task, include_intro)
ReadPyWriteTasksDir(code_dir, layout, include_task, include_intro) ==
    \E v \in {BlocksFrom(TaskLanguages(self), 1)} :
    \E ws \in {ReadPyTaskFiles(v.task, code_dir, layout, include_task, include_intro,
                               TaskIntroValue(v), TaskTaskValue(v))} :
        /\ Within(v)
        /\ task' = v.task
        /\ calls' = v.calls
        /\ options' = Some([op |-> "read.write_tasks_dir", code_dir |-> code_dir,
                            layout |-> layout, include_task |-> include_task,
                            include_intro |-> include_intro])
        /\ files' = WriteFiles(files, ws)
        /\ dirs' = dirs \cup UNION {makedirs(dirname(ws[k].filename)) : k \in 1..Len(ws)}
        /\ stdout' = stdout \o [k \in 1..Len(ws) |-> <<"File: ">> \o ws[k].filename]
        /\ UNCHANGED <<site, ret, fh, langVars, catVars, threadVars>>

\* what list_task writes for one Language, write by write
LanguageLines(l, o) ==
    LET indent == IF o.languages THEN <<"  ">> ELSE <<>>
        blocks == Get(l._blocks)
    IN  (IF ~o.languages THEN <<>>
         ELSE IF o.count
              THEN <<l.name \o <<" (", ToString(Len(blocks)), ")", NL>>>>
              ELSE <<l.name \o <<NL>>>>)
        \o (IF ~o.code THEN <<>>
            ELSE Concat([i \in 1..Len(blocks) |->
                    <<indent \o <<"#", ToString(i - 1), ":", NL>>>>
                    \o Eval(SplitLines(blocks[i].code), LAMBDA ls :
                          [j \in 1..Len(ls) |-> indent \o <<"  ">> \o ls[j] \o <<NL>>])]))

\* sorted(task.values()): Language defines no ordering, so the Languages
\* are ordered by where each object lies in memory, which may be any order
Sorted(languages) ==
    {[k \in 1..Len(languages) |-> languages[p[k]]] :
        p \in Permutations(1..Len(languages))}

\* list_task(task, options, fh)
ListTask(o) ==
    \E v \in {IF (o.languages /\ o.count) \/ o.code
              THEN BlocksFrom(TaskLanguages(self), 1)
              ELSE TaskLanguages(self)} :
    \E sorted \in Sorted(Get(v.task._languages)) :
        /\ Within(v)
        /\ task' = v.task
        /\ calls' = v.calls
        /\ options' = Some([op |-> "list_task", languages |-> o.languages,
                            count |-> o.count, code |-> o.code])
        /\ fh' = fh \o Concat([k \in 1..Len(sorted) |-> LanguageLines(sorted[k], o)])
        /\ UNCHANGED <<site, ret, files, dirs, stdout, langVars, catVars, threadVars>>

Wikinames == { <<"Foo">>, <<"A", "/", "B">> }

\* edit texts with an introduction and no task description, and with a task
\* description and no introduction
CliPages ==
    Pages \cup {EditPage(i \o Concat(ss)) :
                  i \in { <<"Intro.">>, <<NL, ";Task:", NL, "Do it.">> },
                  ss \in SectionLists \ {<<>>}}

\* a Task of the site, and the tool not yet run
InitCli ==
    /\ \E wikiname \in Wikinames, page \in CliPages :
          /\ site = [n \in {wikiname} |-> page]
          /\ task = Task(wikiname)
    /\ calls = NoCalls
    /\ ret = None
    /\ options = None /\ fh = <<>> /\ files = <<>> /\ dirs = {} /\ stdout = <<>>
    /\ IdleLanguage /\ IdleCategory /\ IdleThreads

\* the filter main sets for --language, then one call
NextCli ==
    \/ options = None /\ \E value \in Filters : SetLanguageFilter(value)
    \/ options = None /\ \E o \in [languages : BOOLEAN, count : BOOLEAN, code : BOOLEAN] :
          ListTask(o)
    \/ options = None /\ \E layout \in {"unix", "riscos"}, include_task, include_intro \in BOOLEAN :
          WriteTasksDir(<<"code">>, layout, include_task, include_intro)
    \/ options = None /\ \E layout \in {"unix", "riscos"}, include_task, include_intro \in BOOLEAN :
          ReadPyWriteTasksDir(<<"code">>, layout, include_task, include_intro)

SpecCli == InitCli /\ [][NextCli]_vars

(***************************************************************************)
(* Category.  A listing page is the sequence of the nodes that lie side by *)
(* side in it: h2 headings, other tags with the anchors inside them, and   *)
(* text between tags.                                                      *)
(***************************************************************************)
H2(string) == [kind |-> "h2", string |-> string, atags |-> <<>>]
Tag(atags) == [kind |-> "tag", string |-> None, atags |-> atags]
Text(string) == [kind |-> "text", string |-> Some(string), atags |-> <<>>]
Anchor(href, title) == [href |-> href, title |-> title]

\* [A-Za-z0-9_/%]: every lexeme of a page name but these
IsWikiChar(t) == t \notin {":", "#", "?", ".", SP, NL}

\* Category.match_re.search(href): None or {group(1)}
match_re(href) ==
    IF /\ Len(href) > 1
       /\ href[1] = "/wiki/"
       /\ \A k \in 2..Len(href) : IsWikiChar(href[k])
    THEN Some(SubSeq(href, 2, Len(href)))
    ELSE None

\* the loop over the anchors of one tag, from an empty list: the list made,
\* and whether atag['title'] raised KeyError on the way
RECURSIVE LinksOfTag(_, _)
LinksOfTag(atags, links) ==
    IF atags = <<>> THEN [links |-> Some(links), raised |-> FALSE]
    ELSE LET atag == Head(atags)
             m == IF Truthy(atag.href) THEN match_re(Get(atag.href)) ELSE None
         IN  IF m = None THEN LinksOfTag(Tail(atags), links)
             ELSE IF atag.title = None THEN [links |-> Some(links), raised |-> TRUE]
             ELSE LinksOfTag(Tail(atags), Append(links, <<Get(atag.title), Get(m)>>))

\* the loops of Category.links over the nodes from k on.  The nodes after a
\* heading up to the next h2 are looked at when the heading's string starts
\* with 'Pages in' (active); every tag among them starts the list anew.
RECURSIVE ScanLinks(_, _, _, _)
ScanLinks(nodes, k, active, links) ==
    IF k > Len(nodes) THEN [links |-> links, raised |-> FALSE]
    ELSE LET ele == nodes[k]
         IN  IF ele.kind = "h2"
             THEN ScanLinks(nodes, k + 1,
                            Truthy(ele.string) /\ Get(ele.string)[1] = "Pages in", links)
             ELSE IF ele.kind = "tag" /\ active
             THEN Eval(LinksOfTag(ele.atags, <<>>), LAMBDA r :
                    IF r.raised THEN r
                    ELSE ScanLinks(nodes, k + 1, active, r.links))
             ELSE ScanLinks(nodes, k + 1, active, links)

\* Category.__init__
Category(name) ==
    [category |-> name,
     _page |-> None,
     _links |-> None,
     _tasks |-> None,
     _task_filter |-> AcceptAll]

\* An access of a Category c gives [c |-> the Category after it,
\* raised |-> the exception it ended with, "" for none].
CategoryKey(c) == <<"Category:">> \o c.category

\* Category.page; the value read is CategoryPage(c).c._page
CategoryPage(c) ==
    [c |-> IF Truthy(c._page) THEN c ELSE [c EXCEPT !._page = Some(site[CategoryKey(c)])],
     raised |-> ""]

\* Category.links; the value read is CategoryLinks(c).c._links
CategoryLinks(c) ==
    IF c._links # None THEN [c |-> c, raised |-> ""]
    ELSE Eval(CategoryPage(c).c, LAMBDA c1 :
         Eval(ScanLinks(Get(c1._page), 1, FALSE, None), LAMBDA r :
            [c |-> [c1 EXCEPT !._links = r.links],
             raised |-> IF r.raised THEN "KeyError" ELSE ""]))

\* rccli's task_filter for --language: the Tasks that have the language
HasLanguage(n) == [kind |-> "language", name |-> n]

\* self.task_filter(task): the Task after the call and what the call said
ApplyTaskFilter(filter, t) ==
    IF filter.kind = "all" THEN [task |-> t, accept |-> TRUE]
    ELSE Eval(TaskDict(SetFilter([task |-> t, calls |-> NoCalls], NameIs(filter.name))),
              LAMBDA w : [task |-> w.task,
                          accept |-> filter.name \in DOMAIN Get(w.task._byname)])

\* Category.tasks; the value read is CategoryTasks(c).c._tasks
CategoryTasks(c) ==
    IF c._tasks # None THEN [c |-> c, raised |-> ""]
    ELSE Eval(CategoryLinks(c), LAMBDA r :
            IF r.raised # "" THEN r
            ELSE IF r.c._links = None THEN [c |-> r.c, raised |-> "TypeError"]
            ELSE LET links == Get(r.c._links)
                     tasks == [k \in 1..Len(links) |->
                                 ApplyTaskFilter(r.c._task_filter, Task(links[k][2]))]
                     kept == SelectSeq(tasks, LAMBDA a : a.accept)
                 IN  [c |-> [r.c EXCEPT !._tasks = Some([k \in 1..Len(kept) |-> kept[k].task])],
                      raised |-> ""])

\* the task_filter setter keeping the cached list
SetTaskFilter_keep(c, value) ==
    [c EXCEPT !._task_filter = value]

\* the task_filter setter
SetTaskFilter(c, value) ==
    [c EXCEPT !._task_filter = value, !._tasks = None]

(***************************************************************************)
(* Listing pages of up to MaxNodes nodes, and a site with three Tasks.     *)
(***************************************************************************)
FooLink == Anchor(Some(<<"/wiki/", "Foo">>), Some(<<"Foo">>))
BarLink == Anchor(Some(<<"/wiki/", "Bar">>), Some(<<"Bar">>))

Nodes ==
    { H2(Some(<<"Pages in", " category Cat">>)),
      H2(Some(<<"Subcategories">>)),
      H2(None),
      Text(<<NL>>),
      Tag(<<>>),
      Tag(<<FooLink, BarLink>>),
      Tag(<<Anchor(Some(<<"/wiki/", "A", "/", "B">>), Some(<<"A", "/", "B">>)),
            Anchor(Some(<<"/wiki/", "Help", ":", "Categories">>), Some(<<"Help">>)),
            Anchor(None, Some(<<"top">>)),
            FooLink>>),
      Tag(<<BarLink, Anchor(Some(<<"/wiki/", "Foo">>), None)>>) }

CategoryPages == UNION {[1..n -> Nodes] : n \in 0..MaxNodes}

TaskSite ==
    [n \in {<<"Foo">>, <<"Bar">>, <<"A", "/", "B">>} |->
        IF n = <<"Foo">>
        THEN EditPage(Heading(<<"C">>) \o <<"<lang", ">", "b", "</lang", ">">>)
        ELSE IF n = <<"Bar">>
        THEN EditPage(Heading2(<<"X">>, <<"Y">>) \o <<"<lang", SP, "C", ">", "y", "</lang", ">">>
                      \o Heading(<<"C">>) \o <<"<lang", ">", "c", "</lang", ">">>)
        ELSE <<"<html>", "</html>">>]

TaskFilters == {AcceptAll, HasLanguage(<<"C">>), HasLanguage(<<"Y">>)}

\* a Task as a reader of the list sees it
TaskView(t) == [wikiname |-> t.wikiname, name |-> t.name, filter |-> t._language_filter]
TaskViews(tasks) == [k \in 1..Len(tasks) |-> TaskView(tasks[k])]

ReadCategory(r, op, val) ==
    /\ category' = Some(r.c)
    /\ ret' = Some([op |-> op, raised |-> r.raised,
                    val |-> IF r.raised = "" THEN val ELSE None])
    /\ UNCHANGED <<site, task, calls, langVars, cliVars, threadVars>>

ReadCategoryPage ==
    \E r \in {CategoryPage(Get(category))} : ReadCategory(r, "page", r.c._page)

ReadLinks ==
    \E r \in {CategoryLinks(Get(category))} : ReadCategory(r, "links", r.c._links)

ReadTasks ==
    \E r \in {CategoryTasks(Get(category))} :
        ReadCategory(r, "tasks", IF r.raised = "" THEN Some(TaskViews(Get(r.c._tasks))) ELSE None)

SetTaskFilterTo(value) ==
    /\ category' = Some(SetTaskFilter(Get(category), value))
    /\ ret' = None
    /\ UNCHANGED <<site, task, calls, langVars, cliVars, threadVars>>

InitCategory ==
    /\ \E page \in CategoryPages :
          site = [n \in DOMAIN TaskSite \cup {<<"Category:", "Cat">>} |->
                    IF n \in DOMAIN TaskSite THEN TaskSite[n] ELSE page]
    /\ category = Some(Category(<<"Cat">>))
    /\ task = None /\ calls = None /\ ret = None
    /\ IdleLanguage /\ IdleCli /\ IdleThreads

NextCategory ==
    \/ ReadCategoryPage
    \/ ReadLinks
    \/ ReadTasks
    \/ \E value \in TaskFilters : SetTaskFilterTo(value)

SpecCategory == InitCategory /\ [][NextCategory]_vars

(***************************************************************************)
(* Properties of Language.                                                 *)
(***************************************************************************)
\* the elements of a sequence
Range(s) == {s[k] : k \in 1..Len(s)}

\* the indices of the chunks M that the loop takes as kind
ChunksOfKind(M, kind) == {k \in 1..Len(M) : ChunkKind(M[k]) = kind}

\* the index in M of the chunk that made the i-th block
BlockChunk(M, i) ==
    CHOOSE k \in ChunksOfKind(M, "block") :
        Cardinality({b \in ChunksOfKind(M, "block") : b <= k}) = i

\* C1: in a section with one works-with marker followed by two or more fenced
\* regions, only the first block after the marker has workswith set; every
\* other block of the section has workswith = None.
C1_WorksWithOnlyOnNextBlock ==
    \A l \in language : l._blocks # None =>
        LET M == Get(l._blockmatches)
            blocks == Get(l._blocks)
            W == ChunksOfKind(M, "workswith")
            after == {b \in ChunksOfKind(M, "block") : \A w \in W : b > w}
        IN  (Cardinality(W) = 1 /\ Cardinality(after) >= 2) =>
                \A i \in 1..Len(blocks) :
                    (blocks[i].workswith # None) <=> (BlockChunk(M, i) = Min(after))

\* C3: the section body of the end-to-end example yields exactly one CodeBlock
\* with syntax None, code "int main(){return 0;}", workswith {wikiname "GCC",
\* version "4.8", display None} and output {label "Output", output "0\n",
\* case, input, note, text None}.
C3_EndToEndExample ==
    \A l \in language : (l.md = Example /\ l._blocks # None) =>
        Get(l._blocks) =
            << [syntax |-> None,
                code |-> <<"int main(){return 0;}">>,
                workswith |-> Some([wikiname |-> Some(<<"GCC">>),
                                    version |-> Some(<<"4.8">>),
                                    display |-> None]),
                output |-> Some([label |-> <<"Output">>, output |-> <<"0", NL>>,
                                 case |-> None, input |-> None,
                                 note |-> None, text |-> None])] >>

\* C4: an output marker that comes before any fenced region of the section is
\* discarded: a block carries no output, or the output of an output marker that
\* comes after the block's own fenced region; and the section has exactly one
\* block per fenced region, none made for an output.
C4_DanglingOutputDiscarded ==
    \A l \in language : l._blocks # None =>
        LET M == Get(l._blockmatches)
            blocks == Get(l._blocks)
        IN  /\ Len(blocks) = Cardinality(ChunksOfKind(M, "block"))
            /\ \A i \in 1..Len(blocks) :
                  \/ blocks[i].output = None
                  \/ \E k \in ChunksOfKind(M, "out") :
                        /\ k > BlockChunk(M, i)
                        /\ blocks[i].output = Some(OutputOf(M[k]))

\* an output marker first, a fenced region after it and no output marker after
\* that: the section's blocks are computed and none carries an output
C4_Witness ==
    \E l \in language :
        /\ l._blocks # None
        /\ LET M == Get(l._blockmatches)
           IN  /\ ChunksOfKind(M, "out") # {}
               /\ ChunksOfKind(M, "block") # {}
               /\ \A k \in ChunksOfKind(M, "out"), b \in ChunksOfKind(M, "block") : k < b
               /\ \A i \in 1..Len(Get(l._blocks)) : Get(l._blocks)[i].output = None

\* C7: a Language made from a raw name with a pipe has the second
\* pipe-delimited piece as its name; a raw name without a pipe is kept.
C7_NameIsSecondPipeToken ==
    \A l \in language :
        LET raw == Get(call).name
            P == {k \in 1..Len(raw) : raw[k] = "|"}
            rest == {k \in P : k > Min(P)}
        IN  IF P = {} THEN l.name = raw
            ELSE l.name = SubSeq(raw, Min(P) + 1,
                                 IF rest = {} THEN Len(raw) ELSE Min(rest) - 1)

\* a Language made from "F_Sharp|F#" is named "F#"
C7_Witness ==
    \E l \in language :
        /\ Get(call).name = <<"F_Sharp", "|", "F#">>
        /\ l.name = <<"F#">>

\* the chunks of M that are fenced regions, left to right
Fences(M) == SelectSeq(M, LAMBDA c : c[1] = "<lang")

\* the text of a fenced region between its opening tag and its closing tag
FenceText(c) == SubSeq(c, FirstAt(c, 1, LAMBDA t : t = ">") + 1, Len(c) - 2)

\* C13: the section has exactly one block per fenced region that the chunk
\* scan found, in the order of the regions, and the code of each block is the
\* text between the tags of its region, whatever that text holds.
C13_OneBlockPerFence ==
    \A l \in language : l._blocks # None =>
        LET F == Fences(Get(l._blockmatches))
            blocks == Get(l._blocks)
        IN  /\ Len(blocks) = Len(F)
            /\ \A i \in 1..Len(blocks) : blocks[i].code = FenceText(F[i])

\* the parameters of a marker chunk '{{word|p1|p2...}}': none without a '|'
MarkerTokens(c) ==
    IF c[3] # "|" THEN <<>>
    ELSE Split(SubSeq(c, 4, FirstAt(c, 1, LAMBDA t : t = "}}") - 1), "|")

\* a parameter that is no 'key=value'
Unlabelled(t) == \A k \in 1..Len(t) : t[k] # "="

\* the sections of one fenced region and one output marker after it, with
\* the parameters of the marker and the output the block carries
OutCases ==
    {[tokens |-> MarkerTokens(Get(l._blockmatches)[2]),
      out |-> Get(Get(l._blocks)[1].output)] :
        l \in {x \in language :
                 /\ x._blocks # None
                 /\ Len(Get(x._blockmatches)) = 2
                 /\ Get(x._blockmatches)[2][2] = "out"}}

\* C14: the label of an output is "Output" when the marker has no unlabelled
\* parameter (a bare '{{out}}' too), and the first unlabelled parameter
\* otherwise.
C14_LabelIsFirstUnlabelled ==
    \A c \in OutCases :
        LET U == SelectSeq(c.tokens, Unlabelled)
        IN  c.out.label = IF U = <<>> THEN <<"Output">> ELSE U[1]

\* C15: a 'key=value' parameter sets the field key when key is one of case,
\* input, note, text and nothing else; with any other key it changes no
\* field, so the label is "Output" or one of the unlabelled parameters.
C15_KeyValueSetsOnlyItsField ==
    \A c \in OutCases : c.tokens # <<>> =>
        /\ \A key \in OutKeys :
              LET V == SelectSeq(c.tokens, LAMBDA t : Len(t) > 1 /\ t[1] = key /\ t[2] = "=")
              IN  c.out[key] = IF V = <<>> THEN None
                               ELSE Some(SubSeq(V[Len(V)], 3, Len(V[Len(V)])))
        /\ c.out.label \in {<<"Output">>} \cup {t \in Range(c.tokens) : Unlabelled(t)}
        /\ c.out.output = <<"0">>

\* C17: a works-with marker gives wikiname = its first argument; with two
\* arguments version = the second and display = None; with three display =
\* the second and version = the third; with one or more than three both are
\* None.
C17_WorksWithArguments ==
    \A l \in language :
        (l._blocks # None /\ Get(l._blockmatches)[1][2] = "works with") =>
            LET ts == MarkerTokens(Get(l._blockmatches)[1])
                n == Len(ts)
            IN  Get(l._blocks)[1].workswith =
                    Some([wikiname |-> Some(ts[1]),
                          display |-> IF n = 3 THEN Some(ts[2]) ELSE None,
                          version |-> IF n = 2 THEN Some(ts[2])
                                      ELSE IF n = 3 THEN Some(ts[3]) ELSE None])

\* the marker '{{works with|GCC|gcc|4.8}}' read: display gcc and version 4.8
C17_Witness ==
    \E l \in language :
        /\ l._blocks # None
        /\ MarkerTokens(Get(l._blockmatches)[1]) = <<<<"GCC">>, <<"gcc">>, <<"4.8">>>>
        /\ Get(l._blocks)[1].workswith =
              Some([wikiname |-> Some(<<"GCC">>), display |-> Some(<<"gcc">>),
                    version |-> Some(<<"4.8">>)])

\* the output markers of M that come after the fenced region of the i-th of
\* n blocks and before the fenced region of the next block
OutsOf(M, i, n) ==
    {k \in ChunksOfKind(M, "out") :
        /\ k > BlockChunk(M, i)
        /\ i < n => k < BlockChunk(M, i + 1)}

\* C16: a block carries the output of the last output marker that comes
\* after its fenced region and before the next block's, and none when there
\* is no such marker: an output goes to the block made last and to no earlier
\* one, a further output replaces it, and nothing comes from outside the
\* section's own text.
C16_OutputOnLatestBlock ==
    \A l \in language : l._blocks # None =>
        LET M == Get(l._blockmatches)
            blocks == Get(l._blocks)
        IN  \A i \in 1..Len(blocks) :
                LET O == OutsOf(M, i, Len(blocks))
                IN  blocks[i].output =
                        IF O = {} THEN None
                        ELSE Some(OutputOf(M[CHOOSE k \in O : \A j \in O : j <= k]))

\* a fenced region and two output markers after it: the block carries the
\* output of the second marker
C16_Witness ==
    \E l \in language :
        /\ l._blocks # None
        /\ Len(Get(l._blocks)) = 1
        /\ Cardinality(OutsOf(Get(l._blockmatches), 1, 1)) = 2
        /\ BlockChunk(Get(l._blockmatches), 1) = 1
        /\ Get(l._blocks)[1].output = Some(OutputOf(Get(l._blockmatches)[3]))
        /\ OutputOf(Get(l._blockmatches)[2]) # OutputOf(Get(l._blockmatches)[3])

(***************************************************************************)
(* Properties of Task.                                                     *)
(***************************************************************************)
\* the edit text of the page the site holds for the task
SiteEdit ==
    LET ta == FirstTextarea(site[task.wikiname])
    IN  IF ta = None THEN <<>> ELSE unescape(Get(ta))

\* the Languages detected in that text which the filter f accepts
SiteLanguages(f) ==
    Views(SelectSeq(DetectLanguages(SiteEdit, SiteEdit), LAMBDA l : Accept(f, l)))

\* C2: a paired heading '=={{header|X}} and {{header|Y}}==' gives its body
\* to X only: the list has a Language X with that body and no Language Y with
\* that body.
C2_PairedHeadingOnlyFirst ==
    (task._languages # None /\ task._language_filter = AcceptAll) =>
        \A m \in Range(language2_re(SiteEdit)) :
            /\ \E l \in Range(Get(task._languages)) :
                  l.name = LanguageName(m.name) /\ l.md = m.md
            /\ ~\E l \in Range(Get(task._languages)) :
                  l.name = LanguageName(m.name2) /\ l.md = m.md

\* C5: every read of the language list or of the name mapping gives the
\* Languages of the text that the filter assigned last accepts: the list is
\* exactly those, the mapping has exactly their names, each name with a
\* Language of that name from the list.
C5_ReadsReflectFilter ==
    \A r \in ret :
        LET now == SiteLanguages(task._language_filter)
            names == {l.name : l \in Range(now)}
        IN  /\ r.op = "languages" => r.val = now
            /\ r.op = "keys" => r.val = names
            /\ r.op = "dict" =>
                  /\ DOMAIN r.val = names
                  /\ \A n \in names : r.val[n] \in Range(now) /\ r.val[n].name = n
            /\ r.op = "get" =>
                  /\ r.val.got # None <=> r.val.index \in names
                  /\ \A l \in r.val.got : l \in Range(now) /\ l.name = r.val.index

\* the mapping read under the filter 'name is C', after the list was computed
\* under a filter that accepted more: it holds C alone
C5_Witness ==
    \E r \in ret :
        /\ r.op = "dict"
        /\ task._language_filter = NameIs(<<"C">>)
        /\ DOMAIN r.val = {<<"C">>}
        /\ Len(SiteLanguages(AcceptAll)) > 1
        /\ calls.page = 1

\* C6: with no filter change in between, each lazy field of a Task (page
\* text, edit text, language list) is computed at most once, and the block
\* list of a Language at most once, also when the value computed is empty.
C6_LazyFieldsComputedOnce ==
    /\ calls.page <= 1
    /\ calls.edit <= 1
    /\ calls.languages <= 1
    /\ \A k \in DOMAIN calls.blocks : calls.blocks[k] <= 1

\* the sections of the site's edit text with the name each resolves to and
\* where each ends
SiteSections ==
    {[name |-> LanguageName(m.name), md |-> m.md, end |-> m.end] :
        m \in Range(language_re(SiteEdit))}
    \cup {[name |-> LanguageName(m.name), md |-> m.md, end |-> m.end] :
        m \in Range(language2_re(SiteEdit))}

\* C12: when several sections of a Task resolve to one name, the mapping
\* from names holds for it the Language of the section that is last in the
\* text among them, and the list holds a Language for every section.
C12_LastSectionWins ==
    (task._languages # None /\ task._language_filter = AcceptAll) =>
        /\ Len(Get(task._languages))
              = Len(language_re(SiteEdit)) + Len(language2_re(SiteEdit))
        /\ \A n \in DOMAIN Get(task._byname) :
              LET S == {x \in SiteSections : x.name = n}
                  last == CHOOSE x \in S : \A y \in S : y.end <= x.end
              IN  Get(task._languages)[Get(task._byname)[n]].md = last.md

\* the positions of a span of the edit text, none for no match
Positions(span) == IF span = None THEN {} ELSE Get(span)[1]..Get(span)[2]

\* C18: Task.intro and Task.task are taken from regions of the edit text
\* that share no position.
C18_IntroAndTaskDisjoint ==
    \A r \in ret : r.op \in {"task", "intro"} =>
        LET edit == Get(task._edit)
        IN  Positions(intro_re_span(edit)) \cap Positions(task_re_span(edit)) = {}

\* p is the first position of a line of the text e
AtLineStart(e, p) == p = 1 \/ e[p - 1] = NL

\* C19: Task.task is the text after the first ';Task:' marker line up to the
\* next line that starts a level-2 heading ('==' and not '==='), and it is
\* empty when the text has no marker line.
C19_TaskUpToLevel2Heading ==
    \A r \in ret : r.op = "task" =>
        LET e == Get(task._edit)
            markers == {p \in 1..Len(e) :
                          /\ AtLineStart(e, p) /\ e[p] = ";Task:"
                          /\ p < Len(e) => e[p + 1] = NL}
        IN  IF markers = {} THEN r.val = <<>>
            ELSE LET p == Min(markers)
                     H == {h \in (p + 1)..Len(e) : AtLineStart(e, h) /\ e[h] = "=="}
                 IN  H # {} => r.val = SubSeq(e, p + 2, Min(H) - 1)

(***************************************************************************)
(* Properties of rccli.                                                    *)
(***************************************************************************)
\* the call of write_tasks_dir that was made, if one was
WriteCalls == {o \in options : o.op = "write_tasks_dir"}

\* the blocks of the Task with the path of each one's file, as the export
\* rule of the tool gives it: <fsname> for the only block of a Language,
\* <fsname>__<position from 1> otherwise, the extension the lowercased name
\* with '.' for '/', and <dir>/<name>.<extension> or <dir>/<extension>/<name>
ExportOf(o, l, i) ==
    LET n == Len(Get(l._blocks))
        name == IF n = 1 THEN fsname(task) ELSE fsname(task) \o <<"__", ToString(i)>>
        extension == Replace(lower(l.name), "/", ".")
    IN  IF o.layout = "riscos"
        THEN o.code_dir \o <<"/">> \o extension \o <<"/">> \o name
        ELSE o.code_dir \o <<"/">> \o name \o <<".">> \o extension

Exports(o) ==
    LET languages == Get(task._languages)
    IN  Concat([k \in 1..Len(languages) |->
            [i \in 1..Len(Get(languages[k]._blocks)) |->
                [path |-> ExportOf(o, languages[k], i),
                 name |-> languages[k].name,
                 code |-> Get(languages[k]._blocks)[i].code]]])

EndsInNewline(s) == s # <<>> /\ s[Len(s)] = NL

\* C8 (as stated): every file written by write_tasks_dir ends in exactly one
\* newline, whatever the code of its block is
C8_ExactlyOneTrailingNewline ==
    \A o \in WriteCalls : \A path \in DOMAIN files :
        /\ EndsInNewline(files[path])
        /\ ~EndsInNewline(SubSeq(files[path], 1, Len(files[path]) - 1))

\* C8 (amended): every file written by write_tasks_dir ends with a newline
\* that is written after the code of its block, and the code is in the file
\* as it is: the file ends in exactly one newline when the code is not empty
\* and does not end in a newline, and in two or more when the code ends in a
\* newline
C8_EndsWithAddedNewline ==
    \A o \in WriteCalls : \A path \in DOMAIN files :
        LET text == files[path]
            before == SubSeq(text, 1, Len(text) - 1)
        IN  /\ EndsInNewline(text)
            /\ \E k \in 1..Len(Exports(o)) :
                  LET e == Exports(o)[k]
                  IN  /\ e.path = path
                      /\ Len(before) >= Len(e.code)
                      /\ SubSeq(before, Len(before) - Len(e.code) + 1, Len(before))
                            = encode(e.code)
                      /\ e.code # <<>> => (EndsInNewline(before) <=> EndsInNewline(e.code))

\* a file of a code that ends in a newline, one of an empty code after a
\* comment, and one of a code that ends in no newline are written
C8_Witness ==
    \E o \in WriteCalls :
        /\ \E k \in 1..Len(Exports(o)) :
              EndsInNewline(Exports(o)[k].code) /\ Exports(o)[k].path \in DOMAIN files
        /\ \E k \in 1..Len(Exports(o)) :
              /\ Exports(o)[k].code = <<>>
              /\ Exports(o)[k].path \in DOMAIN files
              /\ Len(files[Exports(o)[k].path]) > 1
        /\ \E k \in 1..Len(Exports(o)) :
              /\ Exports(o)[k].code # <<>>
              /\ ~EndsInNewline(Exports(o)[k].code)
              /\ Exports(o)[k].path \in DOMAIN files

\* C9: write_tasks_dir names the file of a block <fsname> when its Language
\* has exactly one block and <fsname>__<position from 1> when it has more,
\* with the lowercased language name, '.' for '/', as extension; the files
\* are reported and written in the order of the Languages and their blocks
C9_FileNames ==
    \A o \in WriteCalls :
        /\ stdout = [k \in 1..Len(Exports(o)) |-> <<"File: ">> \o Exports(o)[k].path]
        /\ DOMAIN files = {Exports(o)[k].path : k \in 1..Len(Exports(o))}

\* the Task Foo with two blocks of C is exported as Foo__1.c and Foo__2.c,
\* and one with the only block of PL/I as Foo.pl.i
C9_Witness ==
    /\ WriteCalls # {}
    /\ <<"code", "/", "Foo", "__", "1", ".", "c">> \in DOMAIN files
    /\ <<"code", "/", "Foo", "__", "2", ".", "c">> \in DOMAIN files
    /\ <<"code", "/", "Foo", ".", "pl", ".", "i">> \in DOMAIN files

\* the order of Python strings on the lexemes of the language names
NameLexemes == <<"/", "C", "I", "PL", "X", "Y">>
Ord(t) == CHOOSE k \in 1..Len(NameLexemes) : NameLexemes[k] = t

RECURSIVE Before(_, _)
Before(a, b) ==
    IF b = <<>> THEN FALSE
    ELSE IF a = <<>> THEN TRUE
    ELSE IF a[1] # b[1] THEN Ord(a[1]) < Ord(b[1])
    ELSE Before(Tail(a), Tail(b))

\* the language name at the start of a line list_task wrote
ListedName(line) ==
    SubSeq(line, 1, FirstAt(line, 1, LAMBDA t : t \in {NL, " ("}) - 1)

\* C10: list_task writes the Languages of a Task in the lexicographic order
\* of their names
C10_ListedInNameOrder ==
    \A o \in options :
        o.op = "list_task" /\ o.languages /\ ~o.code =>
            \A j, k \in 1..Len(fh) :
                j < k => ~Before(ListedName(fh[k]), ListedName(fh[j]))

(***************************************************************************)
(* Properties of Category.                                                 *)
(***************************************************************************)
\* the names of the Languages the site's page of a Task holds
SiteNamesOf(wikiname) ==
    LET ta == FirstTextarea(site[wikiname])
        edit == IF ta = None THEN <<>> ELSE unescape(Get(ta))
    IN  {l.name : l \in Range(DetectLanguages(edit, edit))}

\* the Tasks of the cached links that the assigned filter accepts, in the
\* order of the links
AcceptedTasks(c) ==
    LET links == Get(c._links)
        f == c._task_filter
        ok == SelectSeq(links, LAMBDA link :
                f.kind = "all" \/ f.name \in SiteNamesOf(link[2]))
    IN  [k \in 1..Len(ok) |->
            [wikiname |-> ok[k][2], name |-> unquote(ok[k][2]),
             filter |-> IF f.kind = "all" THEN AcceptAll ELSE NameIs(f.name)]]

\* C11: every read of Category.tasks that returns gives the Tasks of the
\* category's links that the filter assigned last accepts, in link order,
\* and assigning a filter changes neither the cached page text nor the
\* cached links.
C11_TasksReflectFilter ==
    [][/\ \A r \in ret' :
             r.op = "tasks" /\ r.raised = "" =>
                 Get(r.val) = AcceptedTasks(Get(category'))
       /\ ret' = None =>
             /\ Get(category')._page = Get(category)._page
             /\ Get(category')._links = Get(category)._links]_vars

\* the list read under the filter 'has the language Y' from links to Foo and
\* Bar, of which Bar alone has Y
C11_Witness ==
    \E r \in ret : \E c \in category :
        /\ r.op = "tasks" /\ r.raised = ""
        /\ c._task_filter = HasLanguage(<<"Y">>)
        /\ Len(Get(c._links)) = 2
        /\ Len(Get(r.val)) = 1
        /\ Get(r.val)[1].wikiname = <<"Bar">>

\* the (title, name) pairs of the anchors of one tag whose href is a page
\* name, in the tag's order
RECURSIVE TagLinks(_)
TagLinks(atags) ==
    IF atags = <<>> THEN <<>>
    ELSE LET atag == Head(atags)
             m == IF atag.href = None THEN None ELSE match_re(Get(atag.href))
         IN  (IF m = None THEN <<>> ELSE << <<Get(atag.title), Get(m)>> >>)
             \o TagLinks(Tail(atags))

\* whether the node k of a listing page lies after a 'Pages in ...' h2
\* heading and before the next h2
UnderPagesIn(nodes, k) ==
    \E h \in 1..(k - 1) :
        /\ nodes[h].kind = "h2"
        /\ nodes[h].string # None
        /\ Get(nodes[h].string)[1] = "Pages in"
        /\ \A j \in (h + 1)..k : nodes[j].kind # "h2"

\* the links of every tag under a 'Pages in ...' heading, in page order
RECURSIVE PageLinks(_, _)
PageLinks(nodes, k) ==
    IF k > Len(nodes) THEN <<>>
    ELSE (IF nodes[k].kind = "tag" /\ UnderPagesIn(nodes, k)
          THEN TagLinks(nodes[k].atags) ELSE <<>>)
         \o PageLinks(nodes, k + 1)

\* C21: on every listing page a read of Category.links and a read of
\* Category.tasks end without raising and give a list (an empty one on a page
\* with no 'Pages in ...' heading), and the list of links holds the links of
\* all the tags that follow the heading, in page order.
C21_LinksAndTasksNeverRaise ==
    \A r \in ret : r.op \in {"links", "tasks"} =>
        /\ r.raised = ""
        /\ r.val # None
        /\ r.op = "links" =>
              Get(r.val) = PageLinks(site[<<"Category:", "Cat">>], 1)

\* the calls of write_tasks_dir that were made, of either copy
AnyWriteCalls == {o \in options : o.op \in {"write_tasks_dir", "read.write_tasks_dir"}}

\* C20: write_tasks_dir, in rccli.py and in read.py, writes the intro comment
\* exactly when include_intro is set and the intro is not empty, the task
\* comment exactly when include_task is set and the task text is not empty,
\* each whatever the other option is, and the code after them.
C20_CommentsFollowOptions ==
    \A o \in AnyWriteCalls : \A path \in DOMAIN files :
        LET edit == Get(task._edit)
            intro == IF intro_re(edit) = None THEN <<>> ELSE Get(intro_re(edit))
            tasktext == IF task_re(edit) = None THEN <<>> ELSE Get(task_re(edit))
        IN  \E k \in 1..Len(Exports(o)) :
                LET e == Exports(o)[k]
                IN  /\ e.path = path
                    /\ files[path] =
                          (IF o.include_intro /\ intro # <<>>
                           THEN comment(e.name, <<NL>> \o encode(intro)) \o <<NL>>
                           ELSE <<>>)
                          \o (IF o.include_task /\ tasktext # <<>>
                              THEN comment(e.name, <<"TASK:", NL>> \o encode(tasktext)) \o <<NL>>
                              ELSE <<>>)
                          \o encode(e.code) \o <<NL>>

(***************************************************************************)
(* Properties of the two threads.                                          *)
(***************************************************************************)
\* the list the getter makes of the Task's edit text under a filter
FilteredLanguages(filter) ==
    LET edit == Get(task._edit)
    IN  SelectSeq(DetectLanguages(edit, edit), LAMBDA l : Accept(filter, l))

\* both threads have left the getter and the setter, and the setter made an
\* assignment while the getter was computing
BothFinished ==
    /\ threads.reader.pc = "done"
    /\ threads.writer.pc = "done"
    /\ threads.writer.during

\* C22: when a thread assigned language_filter while another was computing
\* languages on the same Task, then after both have finished a cached list
\* is the one the newly assigned filter gives, never one made under the old
\* filter, and the name mapping is the mapping of that cached list.
C22_CacheReflectsNewFilter ==
    (BothFinished /\ task._languages # None) =>
        /\ Get(task._languages) = FilteredLanguages(task._language_filter)
        /\ task._byname = Some(ByName(Get(task._languages)))

====
